---------------------------- MODULE Spec2Model ----------------------------
(***************************************************************************)
(* A model of the kvs log-structured key-value store: the engine           *)
(* (src/src/engines/kvs.rs) with its writer mutex, index lock, per-handle  *)
(* reader caches and compaction, and the server's connection loop          *)
(* (src/src/server.rs) that drives an engine handle from a pool worker.    *)
(*                                                                         *)
(* A segment file is a sequence of commands; a byte offset is the sum of   *)
(* the serialized lengths of the commands before it.  Strings are short    *)
(* literals; the literal Big stands for a string of BigLen bytes, so that  *)
(* the real compaction threshold is crossed after a few operations.        *)
(***************************************************************************)
EXTENDS Naturals, Integers, Sequences, FiniteSets, TLC

\* ------------------------------------------------------------- bounds ----
MaxOps   == 3          \* set/remove calls issued through the engine API
MaxOpens == 2          \* close-and-reopen cycles
MaxReqs  == 3          \* frames the clients send to the server, over all connections
MaxWorkers == 2        \* largest num_threads a pool is created with
MaxJobs  == 3          \* jobs passed to spawn
MaxStarts == 4         \* starts of the server binary in one directory
BigLen   == 1048576    \* byte length of the string the literal Big stands for

Big      == "B"
Keys     == {"a", "b"}
Values   == {"1", Big}
Threads  == {"t1", "t2"}
Conns    == {"c1", "c2"}
ReqKeys  == {"a"}      \* the keys the clients of the server use

\* ---------------------------------------------------------- constants ----
COMPACTION_THRESHOLD == 1048576
\* {"Set":{"key":"<k>","value":"<v>"}} is 29 bytes around k and v
SetOverhead    == 29
\* {"Remove":{"key":"<k>"}} is 21 bytes around k
RemoveOverhead == 21

VARIABLES
    disk,           \* gen -> contents of the segment file <gen>.log (kept while a handle may be open)
    linked,         \* gens whose file has a directory entry
    index,          \* key -> CommandPos (HashMap: the domain is the set of keys present)
    current_gen,    \* KvStoreWriter.current_gen
    writer_gen,     \* the file KvStoreWriter.writer appends to
    writer_pos,     \* KvStoreWriter.writer.pos
    wreaders,       \* KvStoreWriter.readers (gens)
    uncompacted,    \* KvStoreWriter.uncompacted
    safe_point,     \* KvStoreReader.safe_point (shared atomic)
    compaction_gen, \* compact's local compaction_gen (0 when no compaction runs)
    wmutex,         \* holder of the writer mutex, or NoThread
    iwlock,         \* holder of the index write lock, or NoThread
    readers,        \* thread -> gens cached by that handle's KvStoreReader
    pc,             \* thread -> position in the operation it runs
    op,             \* thread -> the operation being run
    cmd_pos,        \* thread -> the CommandPos local of set / get
    ret,            \* thread -> the Result the operation returned
    kv,             \* history: key -> <<v>> after the last completed set, <<>> after a remove
    nops,           \* history: engine API mutations issued
    opens,          \* history: reopen count
    last_lock,      \* history: the thread that acquired the writer mutex last
    race,           \* history: the two racing calls of a race scenario
    conn_st,        \* connection -> "new", "queued" (job in the pool's channel), "serving", "ended"
    peer,           \* connection -> the client's end: "none", "open", "eof" (write side shut), "reset"
    conn_in,        \* connection -> frames sent and not yet read by the server
    conn_out,       \* connection -> responses the server wrote and flushed
    queue,          \* the pool's channel: connections whose job waits for a worker
    serving,        \* thread -> the connection whose handle_connection it runs, or NoConn
    sent,           \* history: connection -> every frame the client sent
    decoded,        \* history: connection -> every request the server decoded
    pool,           \* the SharedQueueThreadPool: its Sender and the num_threads it was created with
    chan,           \* the pool's channel: the jobs sent and not yet received
    worker,         \* pool worker -> where its loop is and the job it runs
    job_log,        \* history: job -> how far it got and how often it was started
    sentinel,       \* the contents of the `engine` file of the directory, or None
    starts          \* history: the engine flag and the result of every server start

engineVars == <<index, current_gen, writer_gen, writer_pos, wreaders, uncompacted,
                safe_point, compaction_gen>>
diskVars   == <<disk, linked>>
lockVars   == <<wmutex, iwlock>>
threadVars == <<readers, pc, op, cmd_pos, ret>>
obsVars    == <<last_lock, race>>
histVars   == <<kv, nops, opens, obsVars>>
srvVars    == <<conn_st, peer, conn_in, conn_out, queue, serving, sent, decoded>>
kvsVars    == <<diskVars, engineVars, lockVars, threadVars, histVars>>
poolVars   == <<pool, chan, worker, job_log>>
startVars  == <<sentinel, starts>>
hostVars   == <<poolVars, startVars>>
vars == <<kvsVars, srvVars, hostVars>>

NoThread == "none"
NoConn   == "none"
NoJob    == 0
Workers  == 1..MaxWorkers
Jobs     == 1..MaxJobs
NoOp     == [kind |-> "none", key |-> "", value |-> ""]
NoPos    == [gen |-> 0, pos |-> 0, len |-> 0]
NoRace   == [on |-> FALSE, kind |-> "none", key |-> "", present |-> FALSE, removes0 |-> 0,
             val |-> [t \in Threads |-> ""]]

\* ------------------------------------------------------------- Results ----
Ok(v)        == [tag |-> "Ok", val |-> v]
Err(m)       == [tag |-> "Err", val |-> <<m>>]
None         == <<>>
Some(v)      == <<v>>
NoRet        == [tag |-> "none", val |-> <<>>]
KeyNotFound           == "Key not found"
UnexpectedCommandType == "Unexpected command type"
IoNotFound            == "IO error: No such file or directory (os error 2)"
SerdeError            == "Serde error"
IoFailure             == "IO error: Input/output error (os error 5)"

\* ------------------------------------------------------------- Command ----
StrLen(s) == IF s = Big THEN BigLen ELSE Len(s)

SetCmd(k, v) == [cmd |-> "Set", key |-> k, value |-> v]
RemoveCmd(k) == [cmd |-> "Remove", key |-> k, value |-> ""]
RawBytes(n)  == [cmd |-> "Raw", key |-> "", value |-> "", raw |-> n]

\* serialized length of a command (serde_json, externally tagged)
CmdLen(c) ==
    CASE c.cmd = "Set"    -> SetOverhead + StrLen(c.key) + StrLen(c.value)
      [] c.cmd = "Remove" -> RemoveOverhead + StrLen(c.key)
      [] OTHER            -> c.raw

RECURSIVE FileLen(_)
FileLen(content) ==
    IF content = <<>> THEN 0
    ELSE CmdLen(Head(content)) + FileLen(Tail(content))

\* byte offset of the i-th command of a file
Offset(content, i) == FileLen(SubSeq(content, 1, i - 1))

\* the commands that start at byte pos and are len bytes long
At(content, pos, len) ==
    {i \in 1..Len(content) : Offset(content, i) = pos /\ CmdLen(content[i]) = len}

\* decode of the bytes [pos, pos+len) of a file: the command there, or undecodable
ReadAt(content, pos, len) ==
    IF At(content, pos, len) # {}
    THEN content[CHOOSE i \in At(content, pos, len) : TRUE]
    ELSE RawBytes(len)

\* ----------------------------------------------------------- HashMap ----
Insert(m, k, x) == [y \in DOMAIN m \cup {k} |-> IF y = k THEN x ELSE m[y]]
Remove(m, k)    == [y \in DOMAIN m \ {k} |-> m[y]]
OldLen(m, k)    == IF k \in DOMAIN m THEN m[k].len ELSE 0
EmptyMap        == [y \in {} |-> NoPos]


\* ------------------------------------------------- segment directory ----
Max(S) == CHOOSE x \in S : \A y \in S : y <= x
Min(S) == CHOOSE x \in S : \A y \in S : x <= y

\* (mutant) the generation list is left in descending order
RECURSIVE sorted_gen_list_desc(_)
sorted_gen_list_desc(lnk) ==
    IF lnk = {} THEN <<>>
    ELSE <<Max(lnk)>> \o sorted_gen_list_desc(lnk \ {Max(lnk)})

\* the generations of the <gen>.log files in the directory, ascending
RECURSIVE sorted_gen_list(_)
sorted_gen_list(lnk) ==
    IF lnk = {} THEN <<>>
    ELSE <<Min(lnk)>> \o sorted_gen_list(lnk \ {Min(lnk)})

\* new_log_file: open <gen>.log with create+append; the file keeps its bytes if it exists
new_log_file(dsk, lnk, gen) ==
    [disk   |-> IF gen \in lnk THEN dsk
                ELSE [g \in DOMAIN dsk \cup {gen} |-> IF g = gen THEN <<>> ELSE dsk[g]],
     linked |-> lnk \cup {gen},
     pos    |-> IF gen \in lnk THEN FileLen(dsk[gen]) ELSE 0]

\* --------------------------------------------------------------- load ----
\* (mutant) a Remove record's own length is not counted
RECURSIVE load_skipRemoveLen(_, _, _, _, _)
load_skipRemoveLen(gen, content, i, pos, acc) ==
    IF i > Len(content) \/ ~acc.ok THEN acc
    ELSE LET c       == content[i]
             new_pos == pos + CmdLen(c)
         IN  CASE c.cmd = "Set" ->
                    load_skipRemoveLen(gen, content, i + 1, new_pos,
                         [index       |-> Insert(acc.index, c.key,
                                                 [gen |-> gen, pos |-> pos, len |-> new_pos - pos]),
                          uncompacted |-> acc.uncompacted + OldLen(acc.index, c.key),
                          ok          |-> TRUE])
               [] c.cmd = "Remove" ->
                    load_skipRemoveLen(gen, content, i + 1, new_pos,
                         [index       |-> Remove(acc.index, c.key),
                          uncompacted |-> acc.uncompacted + OldLen(acc.index, c.key),
                          ok          |-> TRUE])
               [] OTHER -> [acc EXCEPT !.ok = FALSE]

\* load: replay the commands of one segment into the index; acc carries the
\* index, the uncompacted byte count and whether every command decoded
RECURSIVE load(_, _, _, _, _)
load(gen, content, i, pos, acc) ==
    IF i > Len(content) \/ ~acc.ok THEN acc
    ELSE LET c       == content[i]
             new_pos == pos + CmdLen(c)
         IN  CASE c.cmd = "Set" ->
                    load(gen, content, i + 1, new_pos,
                         [index       |-> Insert(acc.index, c.key,
                                                 [gen |-> gen, pos |-> pos, len |-> new_pos - pos]),
                          uncompacted |-> acc.uncompacted + OldLen(acc.index, c.key),
                          ok          |-> TRUE])
               [] c.cmd = "Remove" ->
                    load(gen, content, i + 1, new_pos,
                         [index       |-> Remove(acc.index, c.key),
                          uncompacted |-> acc.uncompacted + OldLen(acc.index, c.key)
                                                          + (new_pos - pos),
                          ok          |-> TRUE])
               [] OTHER -> [acc EXCEPT !.ok = FALSE]

\* the loop of KvStore::open over gen_list
RECURSIVE load_all(_, _, _, _)
load_all(dsk, gen_list, i, acc) ==
    IF i > Len(gen_list) THEN acc
    ELSE load_all(dsk, gen_list, i + 1, load(gen_list[i], dsk[gen_list[i]], 1, 0, acc))

\* KvStore::open on a directory: the engine state it builds
Open(dsk, lnk) ==
    LET gen_list == sorted_gen_list(lnk)
        loaded   == load_all(dsk, gen_list, 1,
                             [index |-> EmptyMap, uncompacted |-> 0, ok |-> TRUE])
        gen      == (IF gen_list = <<>> THEN 0 ELSE gen_list[Len(gen_list)]) + 1
        file     == new_log_file(dsk, lnk, gen)
    IN  [ok          |-> loaded.ok,
         index       |-> loaded.index,
         uncompacted |-> loaded.uncompacted,
         current_gen |-> gen,
         writer_pos  |-> file.pos,
         wreaders    |-> lnk \cup {gen},
         disk        |-> file.disk,
         linked      |-> file.linked]

\* the directory before the first open: no segment files
EmptyDisk == [g \in {} |-> <<>>]

Init ==
    LET o == Open(EmptyDisk, {})
    IN  /\ disk = o.disk
        /\ linked = o.linked
        /\ index = o.index
        /\ current_gen = o.current_gen
        /\ writer_gen = o.current_gen
        /\ writer_pos = o.writer_pos
        /\ wreaders = o.wreaders
        /\ uncompacted = o.uncompacted
        /\ safe_point = 0
        /\ compaction_gen = 0
        /\ wmutex = NoThread
        /\ iwlock = NoThread
        /\ readers = [t \in Threads |-> {}]
        /\ pc = [t \in Threads |-> "idle"]
        /\ op = [t \in Threads |-> NoOp]
        /\ cmd_pos = [t \in Threads |-> NoPos]
        /\ ret = [t \in Threads |-> NoRet]
        /\ kv = [k \in Keys |-> None]
        /\ nops = 0
        /\ opens = 0
        /\ last_lock = NoThread
        /\ race = NoRace
        /\ conn_st = [c \in Conns |-> "new"]
        /\ peer = [c \in Conns |-> "none"]
        /\ conn_in = [c \in Conns |-> <<>>]
        /\ conn_out = [c \in Conns |-> <<>>]
        /\ queue = <<>>
        /\ serving = [t \in Threads |-> NoConn]
        /\ sent = [c \in Conns |-> <<>>]
        /\ decoded = [c \in Conns |-> <<>>]
        /\ pool = [tx |-> "none", threads |-> 0, send_failed |-> FALSE]
        /\ chan = <<>>
        /\ worker = [w \in Workers |-> [st |-> "none", job |-> NoJob]]
        /\ job_log = [j \in Jobs |-> [st |-> "new", runs |-> 0]]
        /\ sentinel = None
        /\ starts = <<>>


\* ------------------------------------------------------ thread helpers ----
Goto(t, l)      == pc' = [pc EXCEPT ![t] = l]
Returns(t, r)   == /\ pc' = [pc EXCEPT ![t] = "ret"]
                   /\ ret' = [ret EXCEPT ![t] = r]
AppendTo(dsk, gen, c) == [dsk EXCEPT ![gen] = Append(@, c)]

\* ---------------------------------------------------------------- set ----
\* (mutant) the position is read after the write instead of before it
NewCommandPos_after(gen, pos, new_pos) == [gen |-> gen, pos |-> new_pos, len |-> new_pos - pos]

\* the CommandPos set records for the command it wrote at [pos, new_pos)
NewCommandPos(gen, pos, new_pos) == [gen |-> gen, pos |-> pos, len |-> new_pos - pos]

\* a caller invokes set(key, value) on its handle
CallSet(t, k, v) ==
    /\ pc[t] = "idle"
    /\ nops < MaxOps
    /\ Goto(t, "set_start")
    /\ op' = [op EXCEPT ![t] = [kind |-> "set", key |-> k, value |-> v]]
    /\ nops' = nops + 1
    /\ UNCHANGED <<diskVars, engineVars, lockVars, readers, cmd_pos, ret, kv, opens, obsVars>>
    /\ UNCHANGED srvVars
    /\ UNCHANGED hostVars

\* (mutant) set does not take the writer mutex
SetLock_noMutex(t) ==
    /\ pc[t] = "set_start"
    /\ last_lock' = t
    /\ Goto(t, "set_write")
    /\ UNCHANGED <<diskVars, engineVars, wmutex, iwlock, readers, op, cmd_pos, ret, kv, nops,
                   opens, race>>
    /\ UNCHANGED srvVars
    /\ UNCHANGED hostVars

\* self.writer.lock()
SetLock(t) ==
    /\ pc[t] = "set_start"
    /\ wmutex = NoThread
    /\ wmutex' = t
    /\ last_lock' = t
    /\ Goto(t, "set_write")
    /\ UNCHANGED <<diskVars, engineVars, iwlock, readers, op, cmd_pos, ret, kv, nops, opens,
                   race>>
    /\ UNCHANGED srvVars
    /\ UNCHANGED hostVars

\* serialize the Set command to the active writer and flush
SetWrite(t) ==
    /\ pc[t] = "set_write"
    /\ LET cmd     == SetCmd(op[t].key, op[t].value)
           pos     == writer_pos
           new_pos == writer_pos + CmdLen(cmd)
       IN  /\ disk' = AppendTo(disk, writer_gen, cmd)
           /\ writer_pos' = new_pos
           /\ cmd_pos' = [cmd_pos EXCEPT ![t] = NewCommandPos(current_gen, pos, new_pos)]
    /\ Goto(t, "set_index")
    /\ UNCHANGED <<linked, index, current_gen, writer_gen, wreaders, uncompacted,
                   safe_point, compaction_gen, lockVars, readers, op, ret, histVars>>
    /\ UNCHANGED srvVars
    /\ UNCHANGED hostVars

\* index.write(): insert the new entry, count the displaced one; return Ok
\* unless the threshold is crossed
SetIndex(t) ==
    /\ pc[t] = "set_index"
    /\ iwlock = NoThread
    /\ index' = Insert(index, op[t].key, cmd_pos[t])
    /\ uncompacted' = uncompacted + OldLen(index, op[t].key)
    /\ cmd_pos' = [cmd_pos EXCEPT ![t] = NoPos]
    /\ IF uncompacted' > COMPACTION_THRESHOLD
       THEN /\ Goto(t, "compact_files")
            /\ UNCHANGED <<wmutex, ret, kv>>
       ELSE /\ Returns(t, Ok(None))
            /\ wmutex' = NoThread
            /\ kv' = [kv EXCEPT ![op[t].key] = Some(op[t].value)]
    /\ UNCHANGED <<diskVars, current_gen, writer_gen, writer_pos, wreaders, safe_point,
                   compaction_gen, iwlock, readers, op, nops, opens, obsVars>>
    /\ UNCHANGED srvVars
    /\ UNCHANGED hostVars

\* --------------------------------------------------------- compaction ----
\* compact, lines 190-195: reserve two generations, rotate the active writer,
\* create the compaction segment
CompactNewFiles(t) ==
    /\ pc[t] = "compact_files"
    /\ LET cgen   == current_gen + 1
           active == new_log_file(disk, linked, current_gen + 2)
           comp   == new_log_file(active.disk, active.linked, cgen)
       IN  /\ compaction_gen' = cgen
           /\ current_gen' = current_gen + 2
           /\ writer_gen' = current_gen + 2
           /\ writer_pos' = active.pos
           /\ wreaders' = wreaders \cup {current_gen + 2, cgen}
           /\ disk' = comp.disk
           /\ linked' = comp.linked
    /\ Goto(t, "compact_lock")
    /\ UNCHANGED <<index, uncompacted, safe_point, lockVars, readers, op, cmd_pos, ret,
                   histVars>>
    /\ UNCHANGED srvVars
    /\ UNCHANGED hostVars

\* index.write() in compact
CompactLock(t) ==
    /\ pc[t] = "compact_lock"
    /\ iwlock = NoThread
    /\ iwlock' = t
    /\ Goto(t, "compact_copy")
    /\ UNCHANGED <<diskVars, engineVars, wmutex, readers, op, cmd_pos, ret, histVars>>
    /\ UNCHANGED srvVars
    /\ UNCHANGED hostVars

\* (mutant) the seek is left out: the copy starts at the beginning of the file
CopiedBytes_noSeek(dsk, cp) ==
    IF dsk[cp.gen] = <<>> THEN RawBytes(0) ELSE dsk[cp.gen][1]

\* the bytes io::copy moves for one index entry
CopiedBytes(dsk, cp) ==
    LET flen  == FileLen(dsk[cp.gen])
        avail == IF cp.pos >= flen THEN 0
                 ELSE IF cp.pos + cp.len > flen THEN flen - cp.pos ELSE cp.len
    IN  IF At(dsk[cp.gen], cp.pos, cp.len) # {} THEN ReadAt(dsk[cp.gen], cp.pos, cp.len)
        ELSE RawBytes(avail)

\* the loop over index.values_mut(), in the order the map yields them
RECURSIVE CopyLive(_, _, _, _, _, _)
CopyLive(dsk, rdrs, cgen, order, i, acc) ==
    IF i > Len(order) \/ acc.missing # 0 THEN acc
    ELSE LET k  == order[i]
             cp == acc.index[k]
         IN  IF cp.gen \notin rdrs
             THEN [acc EXCEPT !.missing = cp.gen]
             ELSE LET bytes == CopiedBytes(dsk, cp)
                      len   == CmdLen(bytes)
                  IN  CopyLive(dsk, rdrs, cgen, order, i + 1,
                               [index   |-> [acc.index EXCEPT ![k] =
                                               [gen |-> cgen, pos |-> acc.new_pos, len |-> len]],
                                content |-> IF len = 0 THEN acc.content
                                            ELSE Append(acc.content, bytes),
                                new_pos |-> acc.new_pos + len,
                                missing |-> 0])

\* the orders in which a HashMap may yield its keys
Orders(S) == {o \in [1..Cardinality(S) -> S] : \A k \in S : \E i \in DOMAIN o : o[i] = k}

LogFileNotFound(gen) == "Log file not found for generation " \o ToString(gen)

\* (mutant) the records are copied but the index entries are left as they were
CompactCopy_noRewrite(t) ==
    /\ pc[t] = "compact_copy"
    /\ iwlock = t
    /\ \E order \in Orders(DOMAIN index) :
         LET c == CopyLive(disk, wreaders, compaction_gen, order, 1,
                           [index |-> index, content |-> disk[compaction_gen],
                            new_pos |-> 0, missing |-> 0])
         IN  /\ c.missing = 0
             /\ disk' = [disk EXCEPT ![compaction_gen] = c.content]
    /\ Goto(t, "compact_unlink")
    /\ iwlock' = NoThread
    /\ UNCHANGED <<linked, index, current_gen, writer_gen, writer_pos, wreaders, uncompacted,
                   safe_point, compaction_gen, wmutex, readers, op, cmd_pos, ret, histVars>>
    /\ UNCHANGED srvVars
    /\ UNCHANGED hostVars

\* compact, lines 198-216: copy every live record into the compaction segment,
\* rewrite its index entry, flush, release the index lock
CompactCopy(t) ==
    /\ pc[t] = "compact_copy"
    /\ iwlock = t
    /\ \E order \in Orders(DOMAIN index) :
         LET c == CopyLive(disk, wreaders, compaction_gen, order, 1,
                           [index |-> index, content |-> disk[compaction_gen],
                            new_pos |-> 0, missing |-> 0])
         IN  /\ index' = c.index
             /\ disk' = [disk EXCEPT ![compaction_gen] = c.content]
             /\ IF c.missing # 0
                THEN /\ Returns(t, Err(LogFileNotFound(c.missing)))
                     /\ wmutex' = NoThread
                     /\ compaction_gen' = 0
                ELSE /\ Goto(t, "compact_unlink")
                     /\ UNCHANGED <<wmutex, ret, compaction_gen>>
    /\ iwlock' = NoThread
    /\ UNCHANGED <<linked, current_gen, writer_gen, writer_pos, wreaders, uncompacted,
                   safe_point, readers, op, cmd_pos, histVars>>
    /\ UNCHANGED srvVars
    /\ UNCHANGED hostVars

\* (mutant) the compaction segment is unlinked with the stale ones
stale_gens_all(rdrs, cgen) == {g \in rdrs : g <= cgen}

\* (mutant) the segment that was active when compaction began is kept
stale_gens_keep_active(rdrs, cgen) == {g \in rdrs : g < cgen - 1}

\* the generations compact unlinks: the writer's read handles below compaction_gen
stale_gens(rdrs, cgen) == {g \in rdrs : g < cgen}

\* compact, lines 218-228: drop the writer's stale read handles, unlink their
\* files, reset uncompacted
CompactUnlink(t) ==
    /\ pc[t] = "compact_unlink"
    /\ LET stale == stale_gens(wreaders, compaction_gen)
       IN  /\ wreaders' = wreaders \ stale
           /\ linked' = linked \ stale
           /\ IF stale \subseteq linked
              THEN /\ uncompacted' = 0
                   /\ Goto(t, "compact_publish")
                   /\ UNCHANGED <<wmutex, ret, compaction_gen>>
              ELSE /\ Returns(t, Err(IoNotFound))
                   /\ wmutex' = NoThread
                   /\ compaction_gen' = 0
                   /\ UNCHANGED uncompacted
    /\ UNCHANGED <<disk, index, current_gen, writer_gen, writer_pos, safe_point, iwlock,
                   readers, op, cmd_pos, histVars>>
    /\ UNCHANGED srvVars
    /\ UNCHANGED hostVars

\* (mutant) the generation of the new active segment is published
CompactPublish_active(t) ==
    /\ pc[t] = "compact_publish"
    /\ safe_point' = current_gen
    /\ compaction_gen' = 0
    /\ Returns(t, Ok(None))
    /\ wmutex' = NoThread
    /\ kv' = [kv EXCEPT ![op[t].key] = Some(op[t].value)]
    /\ UNCHANGED <<diskVars, index, current_gen, writer_gen, writer_pos, wreaders,
                   uncompacted, iwlock, readers, op, cmd_pos, nops, opens, obsVars>>
    /\ UNCHANGED srvVars
    /\ UNCHANGED hostVars

\* compact, line 231: publish safe_point; compact and then set return Ok
CompactPublish(t) ==
    /\ pc[t] = "compact_publish"
    /\ safe_point' = compaction_gen
    /\ compaction_gen' = 0
    /\ Returns(t, Ok(None))
    /\ wmutex' = NoThread
    /\ kv' = [kv EXCEPT ![op[t].key] = Some(op[t].value)]
    /\ UNCHANGED <<diskVars, index, current_gen, writer_gen, writer_pos, wreaders,
                   uncompacted, iwlock, readers, op, cmd_pos, nops, opens, obsVars>>
    /\ UNCHANGED srvVars
    /\ UNCHANGED hostVars


\* ---------------------------------------------------------------- get ----
\* close_stale_readers: drop cached handles below the safe point
close_stale_readers(rdrs) ==
    IF safe_point > 0 THEN {g \in rdrs : g >= safe_point} ELSE rdrs

\* read_command: evict stale handles, open the segment unless cached, seek,
\* decode cmd_pos.len bytes; a cached handle reads its file even when unlinked
read_command(rdrs, cp) ==
    LET kept == close_stale_readers(rdrs)
    IN  IF cp.gen \notin kept /\ cp.gen \notin linked
        THEN [readers |-> kept, result |-> Err(IoNotFound)]
        ELSE LET cmd == ReadAt(disk[cp.gen], cp.pos, cp.len)
             IN  [readers |-> kept \cup {cp.gen},
                  result  |-> CASE cmd.cmd = "Set"    -> Ok(Some(cmd.value))
                                [] cmd.cmd = "Remove" -> Err(UnexpectedCommandType)
                                [] OTHER              -> Err(SerdeError)]

\* a caller invokes get(key) on its handle
CallGet(t, k) ==
    /\ pc[t] = "idle"
    /\ Goto(t, "get_start")
    /\ op' = [op EXCEPT ![t] = [kind |-> "get", key |-> k, value |-> ""]]
    /\ UNCHANGED <<diskVars, engineVars, lockVars, readers, cmd_pos, ret, histVars>>
    /\ UNCHANGED srvVars
    /\ UNCHANGED hostVars

\* (mutant) get takes the writer mutex before it reads the index
GetLookup_mutex(t) ==
    /\ pc[t] = "get_start"
    /\ wmutex = NoThread
    /\ iwlock = NoThread
    /\ IF op[t].key \in DOMAIN index
       THEN /\ cmd_pos' = [cmd_pos EXCEPT ![t] = index[op[t].key]]
            /\ Goto(t, "get_read")
            /\ UNCHANGED ret
       ELSE /\ Returns(t, Ok(None))
            /\ UNCHANGED cmd_pos
    /\ UNCHANGED <<diskVars, engineVars, lockVars, readers, op, histVars>>
    /\ UNCHANGED srvVars
    /\ UNCHANGED hostVars

\* index.read(): copy the CommandPos out, or return Ok(None)
GetLookup(t) ==
    /\ pc[t] = "get_start"
    /\ iwlock = NoThread
    /\ IF op[t].key \in DOMAIN index
       THEN /\ cmd_pos' = [cmd_pos EXCEPT ![t] = index[op[t].key]]
            /\ Goto(t, "get_read")
            /\ UNCHANGED ret
       ELSE /\ Returns(t, Ok(None))
            /\ UNCHANGED cmd_pos
    /\ UNCHANGED <<diskVars, engineVars, lockVars, readers, op, histVars>>
    /\ UNCHANGED srvVars
    /\ UNCHANGED hostVars

\* self.reader.read_command(cmd_pos), with no lock held
GetRead(t) ==
    /\ pc[t] = "get_read"
    /\ LET r == read_command(readers[t], cmd_pos[t])
       IN  /\ readers' = [readers EXCEPT ![t] = r.readers]
           /\ Returns(t, r.result)
    /\ cmd_pos' = [cmd_pos EXCEPT ![t] = NoPos]
    /\ UNCHANGED <<diskVars, engineVars, lockVars, op, histVars>>
    /\ UNCHANGED srvVars
    /\ UNCHANGED hostVars

\* ------------------------------------------------------------- remove ----
\* a caller invokes remove(key) on its handle
CallRemove(t, k) ==
    /\ pc[t] = "idle"
    /\ nops < MaxOps
    /\ Goto(t, "rm_start")
    /\ op' = [op EXCEPT ![t] = [kind |-> "rm", key |-> k, value |-> ""]]
    /\ nops' = nops + 1
    /\ UNCHANGED <<diskVars, engineVars, lockVars, readers, cmd_pos, ret, kv, opens, obsVars>>
    /\ UNCHANGED srvVars
    /\ UNCHANGED hostVars

\* (mutant) remove checks the index without taking the writer mutex
RemoveLock_noMutex(t) ==
    /\ pc[t] = "rm_start"
    /\ last_lock' = t
    /\ Goto(t, "rm_check")
    /\ UNCHANGED <<diskVars, engineVars, wmutex, iwlock, readers, op, cmd_pos, ret, kv, nops,
                   opens, race>>
    /\ UNCHANGED srvVars
    /\ UNCHANGED hostVars

\* self.writer.lock()
RemoveLock(t) ==
    /\ pc[t] = "rm_start"
    /\ wmutex = NoThread
    /\ wmutex' = t
    /\ last_lock' = t
    /\ Goto(t, "rm_check")
    /\ UNCHANGED <<diskVars, engineVars, iwlock, readers, op, cmd_pos, ret, kv, nops, opens,
                   race>>
    /\ UNCHANGED srvVars
    /\ UNCHANGED hostVars

\* (mutant) the existence check is skipped
contains_key_always(idx, k) == TRUE

\* index.contains_key(&key)
contains_key(idx, k) == k \in DOMAIN idx

\* (mutant) the guard of index.read() is kept until remove returns
RemoveCheck_keepsGuard(t) ==
    /\ pc[t] = "rm_check"
    /\ iwlock = NoThread
    /\ IF ~contains_key(index, op[t].key)
       THEN /\ Returns(t, Err(KeyNotFound))
            /\ wmutex' = NoThread
            /\ UNCHANGED iwlock
       ELSE /\ Goto(t, "rm_write")
            /\ iwlock' = t
            /\ UNCHANGED <<wmutex, ret>>
    /\ UNCHANGED <<diskVars, engineVars, readers, op, cmd_pos, histVars>>
    /\ UNCHANGED srvVars
    /\ UNCHANGED hostVars

\* index.read(): KeyNotFound unless the key is present
RemoveCheck(t) ==
    /\ pc[t] = "rm_check"
    /\ iwlock = NoThread
    /\ IF ~contains_key(index, op[t].key)
       THEN /\ Returns(t, Err(KeyNotFound))
            /\ wmutex' = NoThread
       ELSE /\ Goto(t, "rm_write")
            /\ UNCHANGED <<wmutex, ret>>
    /\ UNCHANGED <<diskVars, engineVars, iwlock, readers, op, cmd_pos, histVars>>
    /\ UNCHANGED srvVars
    /\ UNCHANGED hostVars

\* serialize the Remove command to the active writer and flush
RemoveWrite(t) ==
    /\ pc[t] = "rm_write"
    /\ LET cmd == RemoveCmd(op[t].key)
       IN  /\ disk' = AppendTo(disk, writer_gen, cmd)
           /\ writer_pos' = writer_pos + CmdLen(cmd)
    /\ Goto(t, "rm_index")
    /\ UNCHANGED <<linked, index, current_gen, writer_gen, wreaders, uncompacted,
                   safe_point, compaction_gen, lockVars, readers, op, cmd_pos, ret, histVars>>
    /\ UNCHANGED srvVars
    /\ UNCHANGED hostVars

\* index.write(): remove the entry, count its bytes; return Ok
RemoveIndex(t) ==
    /\ pc[t] = "rm_index"
    /\ iwlock = NoThread
    /\ index' = Remove(index, op[t].key)
    /\ uncompacted' = uncompacted + OldLen(index, op[t].key)
    /\ Returns(t, Ok(None))
    /\ wmutex' = NoThread
    /\ kv' = [kv EXCEPT ![op[t].key] = None]
    /\ UNCHANGED <<diskVars, current_gen, writer_gen, writer_pos, wreaders, safe_point,
                   compaction_gen, iwlock, readers, op, cmd_pos, nops, opens, obsVars>>
    /\ UNCHANGED srvVars
    /\ UNCHANGED hostVars

\* the caller takes the result of the operation
Return(t) ==
    /\ pc[t] = "ret"
    /\ Goto(t, "idle")
    /\ op' = [op EXCEPT ![t] = NoOp]
    /\ ret' = [ret EXCEPT ![t] = NoRet]
    /\ UNCHANGED <<diskVars, engineVars, lockVars, readers, cmd_pos, histVars>>
    /\ UNCHANGED srvVars
    /\ UNCHANGED hostVars

\* ---------------------------------------------------------- close/open ----
\* every handle is dropped and the directory is opened again
Reopen ==
    /\ \A t \in Threads : pc[t] = "idle"
    /\ opens < MaxOpens
    /\ LET o == Open([g \in linked |-> disk[g]], linked)
       IN  /\ o.ok
           /\ disk' = o.disk
           /\ linked' = o.linked
           /\ index' = o.index
           /\ current_gen' = o.current_gen
           /\ writer_gen' = o.current_gen
           /\ writer_pos' = o.writer_pos
           /\ wreaders' = o.wreaders
           /\ uncompacted' = o.uncompacted
    /\ safe_point' = 0
    /\ readers' = [t \in Threads |-> {}]
    /\ opens' = opens + 1
    /\ UNCHANGED <<compaction_gen, lockVars, pc, op, cmd_pos, ret, kv, nops, obsVars>>
    /\ UNCHANGED srvVars
    /\ UNCHANGED hostVars

\* ------------------------------------------------------ specifications ----
\* one step of the engine operation thread t runs
EngineStep(t) ==
    \/ SetLock(t) \/ SetWrite(t) \/ SetIndex(t)
    \/ CompactNewFiles(t) \/ CompactLock(t) \/ CompactCopy(t)
    \/ CompactUnlink(t) \/ CompactPublish(t)
    \/ GetLookup(t) \/ GetRead(t)
    \/ RemoveLock(t) \/ RemoveCheck(t) \/ RemoveWrite(t) \/ RemoveIndex(t)

\* one step of the operation thread t runs, or its caller taking the result
Step(t) ==
    \/ EngineStep(t)
    \/ Return(t)

Call(t) ==
    \/ \E k \in Keys, v \in Values : CallSet(t, k, v)
    \/ \E k \in Keys : CallGet(t, k)
    \/ \E k \in Keys : CallRemove(t, k)

\* handles on several threads, operations interleaved
Next ==
    \/ \E t \in Threads : Call(t)
    \/ \E t \in Threads : Step(t)

Spec == Init /\ [][Next]_vars

\* one handle, one operation at a time, with close and reopen between operations
NextSeq ==
    \/ Call("t1")
    \/ Step("t1")
    \/ Reopen

SpecSeq == Init /\ [][NextSeq]_vars

\* handles on several threads working on one key, each thread keeps running
\* the operation it is in
NextLive ==
    \/ \E t \in Threads, k \in ReqKeys, v \in Values : CallSet(t, k, v)
    \/ \E t \in Threads, k \in ReqKeys : CallGet(t, k)
    \/ \E t \in Threads, k \in ReqKeys : CallRemove(t, k)
    \/ \E t \in Threads : Step(t)

SpecLive == Init /\ [][NextLive]_vars /\ \A t \in Threads : WF_vars(EngineStep(t))


\* ------------------------------------------------ compaction failures ----
\* compact returns the error with `?`; set returns it and drops the writer guard
CompactAborts(t) ==
    /\ Returns(t, Err(IoFailure))
    /\ wmutex' = NoThread
    /\ compaction_gen' = 0

\* the file system after a failed new_log_file(gen): the file was created
\* empty before the failure, or not at all
FailedCreate(dsk, lnk, gen, created) ==
    IF created THEN new_log_file(dsk, lnk, gen) ELSE [disk |-> dsk, linked |-> lnk, pos |-> 0]

\* compact, line 192 fails: current_gen is already advanced, the writer still
\* appends to the old active segment
CompactActiveFileFails(t, created) ==
    /\ pc[t] = "compact_files"
    /\ current_gen' = current_gen + 2
    /\ LET f == FailedCreate(disk, linked, current_gen + 2, created)
       IN  disk' = f.disk /\ linked' = f.linked
    /\ CompactAborts(t)
    /\ UNCHANGED <<index, writer_gen, writer_pos, wreaders, uncompacted, safe_point, iwlock,
                   readers, op, cmd_pos, histVars>>
    /\ UNCHANGED srvVars
    /\ UNCHANGED hostVars

\* compact, line 195 fails: the writer is rotated to the new active segment,
\* there is no compaction writer
CompactSegmentFileFails(t, created) ==
    /\ pc[t] = "compact_files"
    /\ LET active == new_log_file(disk, linked, current_gen + 2)
           f      == FailedCreate(active.disk, active.linked, current_gen + 1, created)
       IN  /\ disk' = f.disk
           /\ linked' = f.linked
           /\ writer_pos' = active.pos
    /\ current_gen' = current_gen + 2
    /\ writer_gen' = current_gen + 2
    /\ wreaders' = wreaders \cup {current_gen + 2}
    /\ CompactAborts(t)
    /\ UNCHANGED <<index, uncompacted, safe_point, iwlock, readers, op, cmd_pos, histVars>>
    /\ UNCHANGED srvVars
    /\ UNCHANGED hostVars

\* compact, line 204 or 207 fails at the (n+1)-th entry: the first n entries
\* are copied and rewritten, the bytes written so far reach the file when the
\* compaction writer is dropped, with or without a torn piece of the failed copy
CompactCopyFails(t, n, torn) ==
    /\ pc[t] = "compact_copy"
    /\ iwlock = t
    /\ n < Cardinality(DOMAIN index)
    /\ \E order \in Orders(DOMAIN index) :
         LET c == CopyLive(disk, wreaders, compaction_gen, SubSeq(order, 1, n), 1,
                           [index |-> index, content |-> disk[compaction_gen],
                            new_pos |-> 0, missing |-> 0])
         IN  /\ c.missing = 0
             /\ index' = c.index
             /\ disk' = [disk EXCEPT ![compaction_gen] =
                            IF torn THEN Append(c.content, RawBytes(1)) ELSE c.content]
    /\ iwlock' = NoThread
    /\ CompactAborts(t)
    /\ UNCHANGED <<linked, current_gen, writer_gen, writer_pos, wreaders, uncompacted,
                   safe_point, readers, op, cmd_pos, histVars>>
    /\ UNCHANGED srvVars
    /\ UNCHANGED hostVars

\* compact, line 215 fails: every entry is rewritten; of the copied records a
\* prefix of n reached the file
CompactFlushFails(t, n) ==
    /\ pc[t] = "compact_copy"
    /\ iwlock = t
    /\ n <= Cardinality(DOMAIN index)
    /\ \E order \in Orders(DOMAIN index) :
         LET c == CopyLive(disk, wreaders, compaction_gen, order, 1,
                           [index |-> index, content |-> disk[compaction_gen],
                            new_pos |-> 0, missing |-> 0])
         IN  /\ c.missing = 0
             /\ n <= Len(c.content)
             /\ index' = c.index
             /\ disk' = [disk EXCEPT ![compaction_gen] = SubSeq(c.content, 1, n)]
    /\ iwlock' = NoThread
    /\ CompactAborts(t)
    /\ UNCHANGED <<linked, current_gen, writer_gen, writer_pos, wreaders, uncompacted,
                   safe_point, readers, op, cmd_pos, histVars>>
    /\ UNCHANGED srvVars
    /\ UNCHANGED hostVars

\* compact, line 226 fails for the stale segment g after the segments in
\* removed were unlinked; g's read handle is already dropped
CompactUnlinkFails(t, removed, g) ==
    /\ pc[t] = "compact_unlink"
    /\ g \in stale_gens(wreaders, compaction_gen)
    /\ removed \subseteq stale_gens(wreaders, compaction_gen) \ {g}
    /\ wreaders' = wreaders \ (removed \cup {g})
    /\ linked' = linked \ removed
    /\ CompactAborts(t)
    /\ UNCHANGED <<disk, index, current_gen, writer_gen, writer_pos, uncompacted, safe_point,
                   iwlock, readers, op, cmd_pos, histVars>>
    /\ UNCHANGED srvVars
    /\ UNCHANGED hostVars

\* an I/O error at one of the steps of the compaction thread t runs
CompactFails(t) ==
    \/ \E created \in BOOLEAN : CompactActiveFileFails(t, created)
    \/ \E created \in BOOLEAN : CompactSegmentFileFails(t, created)
    \/ \E n \in 0..Cardinality(Keys), torn \in BOOLEAN : CompactCopyFails(t, n, torn)
    \/ \E n \in 0..Cardinality(Keys) : CompactFlushFails(t, n)
    \/ \E removed \in SUBSET linked, g \in linked : CompactUnlinkFails(t, removed, g)

\* one handle, one operation at a time, on a file system whose operations can
\* fail during compaction
NextFault ==
    \/ Call("t1")
    \/ Step("t1")
    \/ CompactFails("t1")

SpecFault == Init /\ [][NextFault]_vars

\* one handle calling set and remove, one call at a time, compactions that can
\* fail, and close and reopen between calls
NextFaultSeq ==
    \/ \E k \in Keys, v \in Values : CallSet("t1", k, v)
    \/ \E k \in Keys : CallRemove("t1", k)
    \/ SetLock("t1") \/ SetWrite("t1") \/ SetIndex("t1")
    \/ CompactNewFiles("t1") \/ CompactLock("t1") \/ CompactCopy("t1")
    \/ CompactUnlink("t1") \/ CompactPublish("t1")
    \/ RemoveLock("t1") \/ RemoveCheck("t1") \/ RemoveWrite("t1") \/ RemoveIndex("t1")
    \/ CompactFails("t1")
    \/ Return("t1")
    \/ Reopen

SpecFaultSeq == Init /\ [][NextFaultSeq]_vars

\* a handle that only calls set, on a file system whose operations can fail
\* during compaction, and a second handle that only calls get
NextFaultRead ==
    \/ \E k \in Keys, v \in Values : CallSet("t1", k, v)
    \/ SetLock("t1") \/ SetWrite("t1") \/ SetIndex("t1")
    \/ CompactNewFiles("t1") \/ CompactLock("t1") \/ CompactCopy("t1")
    \/ CompactUnlink("t1") \/ CompactPublish("t1")
    \/ CompactFails("t1")
    \/ Return("t1")
    \/ \E k \in ReqKeys : CallGet("t2", k)
    \/ GetLookup("t2")
    \/ GetRead("t2")
    \/ Return("t2")

SpecFaultRead == Init /\ [][NextFaultRead]_vars


\* ------------------------------------------------------ race scenario ----
Other(t) == CHOOSE u \in Threads : u # t

\* the Remove records for key k in the segment files
RemoveRecords(k) ==
    Cardinality(UNION {{<<g, i>> : i \in {j \in 1..Len(disk[g]) : disk[g][j] = RemoveCmd(k)}}
                       : g \in DOMAIN disk})

\* both threads call the same kind of mutation on the same key at the same time
RaceStart(kind, k, v1, v2) ==
    /\ ~race.on
    /\ \A t \in Threads : pc[t] = "idle"
    /\ nops + 2 <= MaxOps
    /\ pc' = [t \in Threads |-> IF kind = "set" THEN "set_start" ELSE "rm_start"]
    /\ op' = [t \in Threads |->
                [kind |-> kind, key |-> k, value |-> IF t = "t1" THEN v1 ELSE v2]]
    /\ nops' = nops + 2
    /\ race' = [on |-> TRUE, kind |-> kind, key |-> k, present |-> k \in DOMAIN index,
                removes0 |-> RemoveRecords(k),
                val |-> [t \in Threads |-> IF t = "t1" THEN v1 ELSE v2]]
    /\ UNCHANGED <<diskVars, engineVars, lockVars, readers, cmd_pos, ret, kv, opens,
                   last_lock>>
    /\ UNCHANGED srvVars
    /\ UNCHANGED hostVars

\* before the race only t1 runs; in the race both threads do
RaceMay(t) == race.on \/ t = "t1"
\* the racing calls have both returned
RaceOver == race.on /\ \A t \in Threads : pc[t] \in {"ret", "idle"}
\* results are taken once both racing calls have returned
RaceMayReturn(t) == IF race.on THEN RaceOver ELSE t = "t1"
\* after the race the key is read back
RaceMayGet(t, k) == IF race.on THEN RaceOver /\ k = race.key ELSE t = "t1"

NextRace ==
    \/ \E k \in Keys, v \in Values : ~race.on /\ CallSet("t1", k, v)
    \/ \E k \in Keys : ~race.on /\ CallRemove("t1", k)
    \/ \E t \in Threads, k \in Keys : RaceMayGet(t, k) /\ CallGet(t, k)
    \/ \E k \in Keys, v1 \in Values, v2 \in Values : RaceStart("set", k, v1, v2)
    \/ \E k \in Keys : RaceStart("rm", k, "", "")
    \/ \E t \in Threads : RaceMay(t) /\ SetLock(t)
    \/ \E t \in Threads : RaceMay(t) /\ SetWrite(t)
    \/ \E t \in Threads : RaceMay(t) /\ SetIndex(t)
    \/ \E t \in Threads : RaceMay(t) /\ CompactNewFiles(t)
    \/ \E t \in Threads : RaceMay(t) /\ CompactLock(t)
    \/ \E t \in Threads : RaceMay(t) /\ CompactCopy(t)
    \/ \E t \in Threads : RaceMay(t) /\ CompactUnlink(t)
    \/ \E t \in Threads : RaceMay(t) /\ CompactPublish(t)
    \/ \E t \in Threads : RaceMay(t) /\ GetLookup(t)
    \/ \E t \in Threads : RaceMay(t) /\ GetRead(t)
    \/ \E t \in Threads : RaceMay(t) /\ RemoveLock(t)
    \/ \E t \in Threads : RaceMay(t) /\ RemoveCheck(t)
    \/ \E t \in Threads : RaceMay(t) /\ RemoveWrite(t)
    \/ \E t \in Threads : RaceMay(t) /\ RemoveIndex(t)
    \/ \E t \in Threads : RaceMayReturn(t) /\ Return(t)

\* any single-handle history, then two concurrent mutations of one key, then gets
SpecRace == Init /\ [][NextRace]_vars


\* ------------------------------------------------------------- server ----
\* common.rs: the requests a client can send
Requests ==
    {[kind |-> "set", key |-> k, value |-> v] : k \in ReqKeys, v \in Values}
    \cup {[kind |-> "get", key |-> k, value |-> ""] : k \in ReqKeys}
    \cup {[kind |-> "rm", key |-> k, value |-> ""] : k \in ReqKeys}
\* bytes that do not decode as a Request
Garbage == [kind |-> "garbage", key |-> "", value |-> ""]
Frames == Requests \cup {Garbage}

\* common.rs: Response::Ok(Option<String>) and Response::Err(String)
ResponseOk(v)  == [resp |-> "Ok", value |-> v]
ResponseErr(m) == [resp |-> "Err", msg |-> m]

\* (mutant) the value a set wrote is echoed in its response
ToResponse_echo(req, r) ==
    IF r.tag = "Err" THEN ResponseErr(r.val[1])
    ELSE IF req.kind = "get" THEN ResponseOk(r.val)
    ELSE IF req.kind = "set" THEN ResponseOk(Some(req.value))
    ELSE ResponseOk(None)

\* handle_connection, the match on the request: the engine result as a Response
ToResponse(req, r) ==
    IF r.tag = "Err" THEN ResponseErr(r.val[1])
    ELSE IF req.kind = "get" THEN ResponseOk(r.val)
    ELSE ResponseOk(None)

\* the engine entry point a request is dispatched to
EntryPoint(req) ==
    CASE req.kind = "set" -> "set_start"
      [] req.kind = "get" -> "get_start"
      [] req.kind = "rm"  -> "rm_start"

RECURSIVE TotalSent(_)
TotalSent(S) ==
    IF S = {} THEN 0
    ELSE LET c == CHOOSE x \in S : TRUE IN Len(sent[c]) + TotalSent(S \ {c})

\* a client connects; run accepts the stream, clones the engine and spawns the job
Accept(c) ==
    /\ conn_st[c] = "new"
    /\ conn_st' = [conn_st EXCEPT ![c] = "queued"]
    /\ peer' = [peer EXCEPT ![c] = "open"]
    /\ queue' = Append(queue, c)
    /\ UNCHANGED <<conn_in, conn_out, serving, sent, decoded>>
    /\ UNCHANGED kvsVars
    /\ UNCHANGED hostVars

\* the client writes one more frame without waiting for responses
ClientSend(c, f) ==
    /\ peer[c] = "open"
    /\ conn_st[c] \in {"queued", "serving"}
    /\ TotalSent(Conns) < MaxReqs
    /\ conn_in' = [conn_in EXCEPT ![c] = Append(@, f)]
    /\ sent' = [sent EXCEPT ![c] = Append(@, f)]
    /\ UNCHANGED <<conn_st, peer, conn_out, queue, serving, decoded>>
    /\ UNCHANGED kvsVars
    /\ UNCHANGED hostVars

\* the client shuts down its write side: the server reads end of stream after
\* the frames already sent
ClientClose(c) ==
    /\ peer[c] = "open"
    /\ peer' = [peer EXCEPT ![c] = "eof"]
    /\ UNCHANGED <<conn_st, conn_in, conn_out, queue, serving, sent, decoded>>
    /\ UNCHANGED kvsVars
    /\ UNCHANGED hostVars

\* the client aborts the connection: unread frames are lost, reads and writes
\* of the server fail from now on
ClientReset(c) ==
    /\ peer[c] = "open"
    /\ conn_st[c] \in {"queued", "serving"}
    /\ peer' = [peer EXCEPT ![c] = "reset"]
    /\ conn_in' = [conn_in EXCEPT ![c] = <<>>]
    /\ UNCHANGED <<conn_st, conn_out, queue, serving, sent, decoded>>
    /\ UNCHANGED kvsVars
    /\ UNCHANGED hostVars

\* (mutant) a worker whose connection has nothing to read puts it back on the
\* queue and takes the next one
WorkerRecv_yield(t) ==
    /\ pc[t] = "idle"
    /\ queue # <<>>
    /\ IF serving[t] = NoConn THEN TRUE ELSE conn_in[serving[t]] = <<>>
    /\ serving' = [serving EXCEPT ![t] = Head(queue)]
    /\ conn_st' = [c \in Conns |-> IF c = Head(queue) THEN "serving"
                                   ELSE IF c = serving[t] THEN "queued"
                                   ELSE conn_st[c]]
    /\ queue' = IF serving[t] = NoConn THEN Tail(queue)
                ELSE Append(Tail(queue), serving[t])
    /\ readers' = [readers EXCEPT ![t] = {}]
    /\ UNCHANGED <<peer, conn_in, conn_out, sent, decoded>>
    /\ UNCHANGED <<diskVars, engineVars, lockVars, pc, op, cmd_pos, ret, histVars>>
    /\ UNCHANGED hostVars

\* a pool worker receives the next job: handle_connection starts on the
\* engine clone made for it, whose reader cache is empty
WorkerRecv(t) ==
    /\ serving[t] = NoConn
    /\ pc[t] = "idle"
    /\ queue # <<>>
    /\ serving' = [serving EXCEPT ![t] = Head(queue)]
    /\ conn_st' = [conn_st EXCEPT ![Head(queue)] = "serving"]
    /\ queue' = Tail(queue)
    /\ readers' = [readers EXCEPT ![t] = {}]
    /\ UNCHANGED <<peer, conn_in, conn_out, sent, decoded>>
    /\ UNCHANGED <<diskVars, engineVars, lockVars, pc, op, cmd_pos, ret, histVars>>
    /\ UNCHANGED hostVars

\* handle_connection returns: the stream and the engine clone are dropped and
\* the worker goes back to the channel
JobEnds(t) ==
    /\ serving' = [serving EXCEPT ![t] = NoConn]
    /\ conn_st' = [conn_st EXCEPT ![serving[t]] = "ended"]
    /\ conn_in' = [conn_in EXCEPT ![serving[t]] = <<>>]
    /\ readers' = [readers EXCEPT ![t] = {}]

\* the request iterator yields a request and the engine operation is called
ConnDecode(t) ==
    /\ serving[t] # NoConn
    /\ pc[t] = "idle"
    /\ peer[serving[t]] # "reset"
    /\ conn_in[serving[t]] # <<>>
    /\ Head(conn_in[serving[t]]) \in Requests
    /\ LET c == serving[t]
           req == Head(conn_in[c])
       IN  /\ conn_in' = [conn_in EXCEPT ![c] = Tail(@)]
           /\ decoded' = [decoded EXCEPT ![c] = Append(@, req)]
           /\ Goto(t, EntryPoint(req))
           /\ op' = [op EXCEPT ![t] = req]
           /\ nops' = IF req.kind = "get" THEN nops ELSE nops + 1
    /\ UNCHANGED <<conn_st, peer, conn_out, queue, serving, sent>>
    /\ UNCHANGED <<diskVars, engineVars, lockVars, readers, cmd_pos, ret, kv, opens, obsVars>>
    /\ UNCHANGED hostVars

\* (mutant) the decode error is answered with an Err response before the loop ends
ConnDecodeError_answers(t) ==
    /\ serving[t] # NoConn
    /\ pc[t] = "idle"
    /\ \/ peer[serving[t]] = "reset"
       \/ /\ conn_in[serving[t]] # <<>>
          /\ Head(conn_in[serving[t]]) = Garbage
    /\ JobEnds(t)
    /\ conn_out' = [conn_out EXCEPT ![serving[t]] = Append(@, ResponseErr(SerdeError))]
    /\ UNCHANGED <<peer, queue, sent, decoded>>
    /\ UNCHANGED <<diskVars, engineVars, lockVars, pc, op, cmd_pos, ret, histVars>>
    /\ UNCHANGED hostVars

\* the request iterator yields an error (undecodable bytes, or a failed read):
\* `request?` returns it and the loop ends
ConnDecodeError(t) ==
    /\ serving[t] # NoConn
    /\ pc[t] = "idle"
    /\ \/ peer[serving[t]] = "reset"
       \/ /\ conn_in[serving[t]] # <<>>
          /\ Head(conn_in[serving[t]]) = Garbage
    /\ JobEnds(t)
    /\ UNCHANGED <<peer, conn_out, queue, sent, decoded>>
    /\ UNCHANGED <<diskVars, engineVars, lockVars, pc, op, cmd_pos, ret, histVars>>
    /\ UNCHANGED hostVars

\* the request iterator ends at end of stream and handle_connection returns Ok
ConnEof(t) ==
    /\ serving[t] # NoConn
    /\ pc[t] = "idle"
    /\ peer[serving[t]] = "eof"
    /\ conn_in[serving[t]] = <<>>
    /\ JobEnds(t)
    /\ UNCHANGED <<peer, conn_out, queue, sent, decoded>>
    /\ UNCHANGED <<diskVars, engineVars, lockVars, pc, op, cmd_pos, ret, histVars>>
    /\ UNCHANGED hostVars

\* (mutant) the engine's error is propagated with `?` instead of being answered
ConnRespond_errEnds(t) ==
    /\ serving[t] # NoConn
    /\ pc[t] = "ret"
    /\ IF peer[serving[t]] = "reset" \/ ret[t].tag = "Err"
       THEN /\ JobEnds(t)
            /\ UNCHANGED conn_out
       ELSE /\ conn_out' = [conn_out EXCEPT ![serving[t]] = Append(@, ToResponse(op[t], ret[t]))]
            /\ UNCHANGED <<conn_st, conn_in, serving, readers>>
    /\ Goto(t, "idle")
    /\ op' = [op EXCEPT ![t] = NoOp]
    /\ ret' = [ret EXCEPT ![t] = NoRet]
    /\ UNCHANGED <<peer, queue, sent, decoded>>
    /\ UNCHANGED <<diskVars, engineVars, lockVars, cmd_pos, histVars>>
    /\ UNCHANGED hostVars

\* the engine operation returned: its result is written as a Response and
\* flushed; if the write fails handle_connection returns the error
ConnRespond(t) ==
    /\ serving[t] # NoConn
    /\ pc[t] = "ret"
    /\ IF peer[serving[t]] = "reset"
       THEN /\ JobEnds(t)
            /\ UNCHANGED conn_out
       ELSE /\ conn_out' = [conn_out EXCEPT ![serving[t]] = Append(@, ToResponse(op[t], ret[t]))]
            /\ UNCHANGED <<conn_st, conn_in, serving, readers>>
    /\ Goto(t, "idle")
    /\ op' = [op EXCEPT ![t] = NoOp]
    /\ ret' = [ret EXCEPT ![t] = NoRet]
    /\ UNCHANGED <<peer, queue, sent, decoded>>
    /\ UNCHANGED <<diskVars, engineVars, lockVars, cmd_pos, histVars>>
    /\ UNCHANGED hostVars

\* the server: clients connect and pipeline frames, a pool of |Threads| workers
\* runs one connection each on clones of one engine
NextServer ==
    \/ \E c \in Conns : Accept(c)
    \/ \E c \in Conns, f \in Frames : ClientSend(c, f)
    \/ \E c \in Conns : ClientClose(c)
    \/ \E c \in Conns : ClientReset(c)
    \/ \E t \in Threads : WorkerRecv(t)
    \/ \E t \in Threads : ConnDecode(t)
    \/ \E t \in Threads : ConnDecodeError(t)
    \/ \E t \in Threads : ConnEof(t)
    \/ \E t \in Threads : ConnRespond(t)
    \/ \E t \in Threads : EngineStep(t)

SpecServer == Init /\ [][NextServer]_vars

\* one step of worker thread t: its loop on the channel, the request loop of the
\* connection it runs, the engine operation it called
WorkerStep(t) ==
    \/ WorkerRecv(t) \/ ConnDecode(t) \/ ConnDecodeError(t) \/ ConnEof(t)
    \/ ConnRespond(t) \/ EngineStep(t)

\* one client connection on the pool, with worker threads that keep running
NextConn ==
    \/ Accept("c1")
    \/ \E f \in Frames : ClientSend("c1", f)
    \/ ClientClose("c1")
    \/ ClientReset("c1")
    \/ \E t \in Threads : WorkerStep(t)

SpecConn == Init /\ [][NextConn]_vars /\ \A t \in Threads : WF_vars(WorkerStep(t))

\* a pool of one worker and two client connections
NextStall ==
    \/ \E c \in Conns : Accept(c)
    \/ \E c \in Conns, f \in Frames : ClientSend(c, f)
    \/ \E c \in Conns : ClientClose(c)
    \/ \E c \in Conns : ClientReset(c)
    \/ WorkerStep("t1")

SpecStall == Init /\ [][NextStall]_vars /\ WF_vars(WorkerStep("t1"))


\* ------------------------------------------------- shared-queue pool ----
\* the workers whose Receiver is alive
Receivers == {w \in Workers : worker[w].st \in {"recv", "run"}}

\* SharedQueueThreadPool::new(threads): the channel is created, one worker per
\* id is spawned on a clone of the Receiver, the original Receiver is dropped
PoolNew(n) ==
    /\ pool.tx = "none"
    /\ pool' = [pool EXCEPT !.tx = "open", !.threads = n]
    /\ worker' = [w \in Workers |-> IF w <= n THEN [st |-> "recv", job |-> NoJob]
                                     ELSE worker[w]]
    /\ UNCHANGED <<chan, job_log>>
    /\ UNCHANGED <<kvsVars, srvVars, startVars>>

\* spawn(job): the job is sent on the channel; the send fails, and `expect`
\* panics, when no Receiver is left
PoolSpawn(j) ==
    /\ pool.tx = "open"
    /\ ~pool.send_failed
    /\ job_log[j].st = "new"
    /\ IF Receivers # {}
       THEN /\ chan' = Append(chan, j)
            /\ job_log' = [job_log EXCEPT ![j].st = "queued"]
            /\ UNCHANGED pool
       ELSE /\ pool' = [pool EXCEPT !.send_failed = TRUE]
            /\ job_log' = [job_log EXCEPT ![j].st = "lost"]
            /\ UNCHANGED chan
    /\ UNCHANGED worker
    /\ UNCHANGED <<kvsVars, srvVars, startVars>>

\* (mutant) the worker starts the job at the head of the channel and leaves it there
PoolRecv_peek(w) ==
    /\ worker[w].st = "recv"
    /\ chan # <<>>
    /\ worker' = [worker EXCEPT ![w] = [st |-> "run", job |-> Head(chan)]]
    /\ job_log' = [job_log EXCEPT ![Head(chan)] = [st |-> "running", runs |-> @.runs + 1]]
    /\ UNCHANGED <<pool, chan>>
    /\ UNCHANGED <<kvsVars, srvVars, startVars>>

\* spawn_worker, rx.recv() returns Ok(job): the worker takes the job at the
\* head of the channel and starts it
PoolRecv(w) ==
    /\ worker[w].st = "recv"
    /\ chan # <<>>
    /\ chan' = Tail(chan)
    /\ worker' = [worker EXCEPT ![w] = [st |-> "run", job |-> Head(chan)]]
    /\ job_log' = [job_log EXCEPT ![Head(chan)] = [st |-> "running", runs |-> @.runs + 1]]
    /\ UNCHANGED pool
    /\ UNCHANGED <<kvsVars, srvVars, startVars>>

\* the job returns and the worker loops back to rx.recv()
JobReturns(w) ==
    /\ worker[w].st = "run"
    /\ worker' = [worker EXCEPT ![w] = [st |-> "recv", job |-> NoJob]]
    /\ job_log' = [job_log EXCEPT ![worker[w].job].st = "done"]
    /\ UNCHANGED <<pool, chan>>
    /\ UNCHANGED <<kvsVars, srvVars, startVars>>

\* (mutant) the panic of a job unwinds through the worker's loop
JobPanics_kills(w) ==
    /\ worker[w].st = "run"
    /\ worker' = [worker EXCEPT ![w] = [st |-> "exited", job |-> NoJob]]
    /\ job_log' = [job_log EXCEPT ![worker[w].job].st = "panicked"]
    /\ UNCHANGED <<pool, chan>>
    /\ UNCHANGED <<kvsVars, srvVars, startVars>>

\* the job panics: catch_unwind returns Err, the worker logs it and loops back
\* to rx.recv()
JobPanics(w) ==
    /\ worker[w].st = "run"
    /\ worker' = [worker EXCEPT ![w] = [st |-> "recv", job |-> NoJob]]
    /\ job_log' = [job_log EXCEPT ![worker[w].job].st = "panicked"]
    /\ UNCHANGED <<pool, chan>>
    /\ UNCHANGED <<kvsVars, srvVars, startVars>>

\* the pool is dropped: its Sender is dropped and the channel is disconnected
PoolDrop ==
    /\ pool.tx = "open"
    /\ pool' = [pool EXCEPT !.tx = "closed"]
    /\ UNCHANGED <<chan, worker, job_log>>
    /\ UNCHANGED <<kvsVars, srvVars, startVars>>

\* (mutant) recv fails as soon as the channel is disconnected
PoolWorkerExit_closed(w) ==
    /\ worker[w].st = "recv"
    /\ pool.tx = "closed"
    /\ worker' = [worker EXCEPT ![w] = [st |-> "exited", job |-> NoJob]]
    /\ UNCHANGED <<pool, chan, job_log>>
    /\ UNCHANGED <<kvsVars, srvVars, startVars>>

\* spawn_worker, rx.recv() returns Err: the channel is disconnected and empty,
\* the worker returns
PoolWorkerExit(w) ==
    /\ worker[w].st = "recv"
    /\ pool.tx = "closed"
    /\ chan = <<>>
    /\ worker' = [worker EXCEPT ![w] = [st |-> "exited", job |-> NoJob]]
    /\ UNCHANGED <<pool, chan, job_log>>
    /\ UNCHANGED <<kvsVars, srvVars, startVars>>

\* one step of pool worker w
PoolWorkerStep(w) ==
    \/ PoolRecv(w) \/ JobReturns(w) \/ JobPanics(w) \/ PoolWorkerExit(w)

\* a pool of 0..MaxWorkers threads, jobs that return or panic, and the drop of
\* the pool; workers are scheduled fairly and running jobs end
NextPool ==
    \/ \E n \in 0..MaxWorkers : PoolNew(n)
    \/ \E j \in Jobs : PoolSpawn(j)
    \/ PoolDrop
    \/ \E w \in Workers : PoolWorkerStep(w)

SpecPool == Init /\ [][NextPool]_vars /\ \A w \in Workers : WF_vars(PoolWorkerStep(w))


\* ------------------------------------------------ engine sentinel file ----
DEFAULT_ENGINE == "kvs"
\* the values of the --engine flag: absent, the two engines, another name
EngineFlags == {None, Some("kvs"), Some("sled"), Some("rocks")}

WrongEngine(prev, e) ==
    "Wrong engine! Previously used '" \o prev \o "', but '" \o e \o "' was requested."
InvalidEngine(e) == "Invalid engine: " \o e \o ". Must be 'kvs' or 'sled'."

\* (mutant) the requested engine wins over the recorded one
resolve_engine_overwrite(engine, prev_engine) ==
    LET e == IF engine # None THEN engine[1]
             ELSE IF prev_engine # None THEN prev_engine[1]
             ELSE DEFAULT_ENGINE
    IN  IF e \notin {"kvs", "sled"}
        THEN [result |-> Err(InvalidEngine(e)), file |-> prev_engine]
        ELSE [result |-> Ok(e), file |-> Some(e)]

\* resolve_engine: the result, and the contents of the `engine` file afterwards
resolve_engine(engine, prev_engine) ==
    IF engine # None /\ prev_engine # None /\ engine[1] # prev_engine[1]
    THEN [result |-> Err(WrongEngine(prev_engine[1], engine[1])), file |-> prev_engine]
    ELSE LET e == IF engine # None THEN engine[1]
                  ELSE IF prev_engine # None THEN prev_engine[1]
                  ELSE DEFAULT_ENGINE
         IN  IF e # "kvs" /\ e # "sled"
             THEN [result |-> Err(InvalidEngine(e)), file |-> prev_engine]
             ELSE [result |-> Ok(e), file |-> Some(e)]

\* kvs-server is started in the directory with the given --engine flag
ResolveEngine(engine) ==
    /\ Len(starts) < MaxStarts
    /\ LET r == resolve_engine(engine, sentinel)
       IN  /\ sentinel' = r.file
           /\ starts' = Append(starts, [engine |-> engine, result |-> r.result])
    /\ UNCHANGED <<kvsVars, srvVars, poolVars>>

\* any sequence of server starts in one directory
NextStart == \E engine \in EngineFlags : ResolveEngine(engine)

SpecStart == Init /\ [][NextStart]_vars

\* =================================================================== claims
\* what get(k) returns on handle t when nothing else runs
HandleGet(t, k) ==
    IF k \in DOMAIN index THEN read_command(readers[t], index[k]).result ELSE Ok(None)

\* C1: with one operation at a time, a get that has returned holds the value of
\* the most recent successful set of its key, and absent (never an error) when
\* the key was never set or was last removed
C1_GetReturnsLatest ==
    \A t \in Threads :
        (pc[t] = "ret" /\ op[t].kind = "get") => ret[t] = Ok(kv[op[t].key])

\* a get has returned a value after a compaction ran
C1_Witness ==
    \E t \in Threads :
        /\ pc[t] = "ret" /\ op[t].kind = "get"
        /\ ret[t] = Ok(Some("1"))
        /\ safe_point > 0

\* C2: closing and reopening the directory leaves the answer of get unchanged
\* for every key and every handle, and the replayed index answers with the map
\* the live set/remove calls built
C2_ReopenEquivalence ==
    [][opens' # opens =>
          \A k \in Keys : \A t \in Threads : \A u \in Threads :
              /\ HandleGet(u, k)' = HandleGet(t, k)
              /\ HandleGet(u, k)' = Ok(kv[k])]_vars

\* reopened after a compaction unlinked the first segment, with a key whose
\* index entry was rebuilt by replay
C2_Witness ==
    /\ opens >= 1
    /\ 1 \notin linked
    /\ \E k \in DOMAIN index : index[k].gen < current_gen

Committed(k) ==
    IF \E u \in Threads : /\ op[u].kind = "set" /\ op[u].key = k
                          /\ pc[u] \in {"compact_files", "compact_lock", "compact_copy",
                                        "compact_unlink", "compact_publish"}
    THEN Some(op[CHOOSE u \in Threads :
                    /\ op[u].kind = "set" /\ op[u].key = k
                    /\ pc[u] \in {"compact_files", "compact_lock", "compact_copy",
                                  "compact_unlink", "compact_publish"}].value)
    ELSE kv[k]

\* the value of the record that the CommandPos a get copied out points at
SeenValue(t) == ReadAt(disk[cmd_pos[t].gen], cmd_pos[t].pos, cmd_pos[t].len).value

\* C4: a get on any handle returns what every set or remove that returned
\* before it took the index read lock left: it looks that state up under the
\* lock and returns the value it looked up
C4_GetSeesCompletedWrites ==
    [][\A t \in Threads :
          /\ (pc[t] = "get_start" /\ pc'[t] = "get_read") =>
                 Some(SeenValue(t)') = Committed(op[t].key)
          /\ (pc[t] = "get_start" /\ pc'[t] = "ret") =>
                 (Committed(op[t].key) = None /\ ret'[t] = Ok(None))
          /\ (pc[t] = "get_read" /\ pc'[t] = "ret") =>
                 ret'[t] = Ok(Some(SeenValue(t)))]_vars

\* C5: two concurrent sets of one key both return Ok; the winner, the set that
\* took the writer mutex last, adds the length of the loser's record to
\* uncompacted when it commits; and a get after both returns the winner's value
C5_ConcurrentSets ==
    [][(race'.on /\ race'.kind = "set") =>
          \A t \in Threads :
              /\ (pc'[t] = "ret" /\ op'[t].kind = "set") => ret'[t] = Ok(None)
              /\ (pc'[t] = "ret" /\ op'[t].kind = "get") =>
                     ret'[t] = Ok(Some(race'.val[last_lock']))
              /\ (pc[t] = "set_index" /\ pc'[t] # "set_index" /\ pc[Other(t)] = "ret") =>
                     /\ last_lock = t
                     /\ uncompacted' = uncompacted
                                       + CmdLen(SetCmd(race.key, race.val[Other(t)]))]_vars

\* two sets with different values raced, the winner's commit made the set
\* compact, and a later get returned a value
C5_Witness ==
    /\ race.on /\ race.kind = "set"
    /\ race.val["t1"] # race.val["t2"]
    /\ safe_point > 0
    /\ \E t \in Threads : pc[t] = "ret" /\ op[t].kind = "get" /\ ret[t].tag = "Ok"

\* C6: two concurrent removes of a present key: one returns Ok, the other
\* KeyNotFound, and one Remove record is appended
C6_ConcurrentRemoves ==
    (/\ race.on /\ race.kind = "rm" /\ race.present
     /\ \A t \in Threads : pc[t] = "ret" /\ op[t].kind = "rm")
    => /\ \E t \in Threads : ret[t] = Ok(None) /\ ret[Other(t)] = Err(KeyNotFound)
       /\ RemoveRecords(race.key) = race.removes0 + 1

\* both removes of a present key have returned
C6_Witness ==
    /\ race.on /\ race.kind = "rm" /\ race.present
    /\ \A t \in Threads : pc[t] = "ret" /\ op[t].kind = "rm"

\* C7: a remove whose key is not in the index returns KeyNotFound, and no step
\* of it changes the segment files, the index, uncompacted, the current
\* generation or safe_point
C7_RemoveAbsent ==
    [][\A t \in Threads :
          (/\ op[t].kind = "rm" /\ pc[t] \in {"rm_start", "rm_check"} /\ pc'[t] # pc[t]
           /\ op[t].key \notin DOMAIN index)
          => /\ UNCHANGED <<disk, linked, index, uncompacted, current_gen, writer_pos,
                            safe_point>>
             /\ pc[t] = "rm_check" => (pc'[t] = "ret" /\ ret'[t] = Err(KeyNotFound))]_vars

\* a remove returned KeyNotFound while the store held other keys and dead bytes
C7_Witness ==
    \E t \in Threads :
        /\ pc[t] = "ret" /\ op[t].kind = "rm" /\ ret[t] = Err(KeyNotFound)
        /\ DOMAIN index # {}
        /\ uncompacted > 0

\* C8: when a compaction completes, the segment files are exactly <safe_point>.log
\* and the empty active segment <safe_point + 1>.log
C8_AfterCompaction ==
    [][\A t \in Threads :
          (pc[t] = "compact_publish" /\ pc'[t] = "ret" /\ ret'[t] = Ok(None))
          => /\ linked' = {safe_point', safe_point' + 1}
             /\ current_gen' = safe_point' + 1
             /\ writer_gen' = safe_point' + 1
             /\ disk'[safe_point' + 1] = <<>>
             /\ disk'[safe_point'] # <<>>]_vars

\* a compaction completed in a directory that held three segments before it
C8_Witness ==
    /\ opens >= 1
    /\ safe_point >= 3
    /\ linked = {safe_point, safe_point + 1}
    /\ \E t \in Threads : pc[t] = "ret" /\ op[t].kind = "set"

\* C9: on every connection the requests are decoded in the order sent, at most
\* one decoded request is unanswered, and a response is written only by the
\* worker of the connection, for the request decoded last and with the engine's
\* result for it (Ok(null) for a successful set or remove, the value or null for
\* a get); unless the write fails the worker always writes it
C9_OneResponsePerRequest ==
    /\ [](\A c \in Conns :
             /\ Len(conn_out[c]) <= Len(decoded[c])
             /\ Len(decoded[c]) <= Len(conn_out[c]) + 1
             /\ Len(decoded[c]) <= Len(sent[c])
             /\ \A i \in DOMAIN decoded[c] : decoded[c][i] = sent[c][i])
    /\ [][/\ \A c \in Conns :
                conn_out'[c] # conn_out[c] =>
                    \E t \in Threads :
                        /\ serving[t] = c /\ pc[t] = "ret"
                        /\ op[t] = decoded[c][Len(decoded[c])]
                        /\ Len(conn_out'[c]) = Len(decoded[c])
                        /\ conn_out'[c] =
                             Append(conn_out[c],
                                    IF ret[t].tag = "Err"
                                    THEN [resp |-> "Err", msg |-> ret[t].val[1]]
                                    ELSE IF op[t].kind = "get"
                                    THEN [resp |-> "Ok", value |-> ret[t].val]
                                    ELSE [resp |-> "Ok", value |-> <<>>])
          /\ \A t \in Threads :
                (/\ serving[t] # NoConn /\ pc[t] = "ret" /\ pc'[t] # "ret"
                 /\ peer[serving[t]] # "reset")
                => Len(conn_out'[serving[t]]) = Len(conn_out[serving[t]]) + 1]_vars

\* two pipelined requests were answered in order, the second a get that found
\* the value the first one set, while a third request was already sent
C9_Witness ==
    \E c \in Conns :
        /\ Len(conn_out[c]) = 2
        /\ conn_out[c][1] = ResponseOk(None)
        /\ conn_out[c][2] = ResponseOk(Some("1"))
        /\ Len(conn_in[c]) = 1

\* C10: when the engine operation of a request returns an error, the worker
\* writes an Err response with the error's message and stays in the request
\* loop of the connection, with the requests already sent still to be read;
\* and a request sent after an Err response is answered, unless the client
\* aborts the connection
C10_ErrKeepsConnection ==
    /\ [][\A t \in Threads :
             (/\ serving[t] # NoConn /\ pc[t] = "ret" /\ pc'[t] # "ret"
              /\ ret[t].tag = "Err"
              /\ peer[serving[t]] # "reset")
             => /\ conn_out'[serving[t]] =
                     Append(conn_out[serving[t]], [resp |-> "Err", msg |-> ret[t].val[1]])
                /\ serving'[t] = serving[t]
                /\ conn_st'[serving[t]] = "serving"
                /\ pc'[t] = "idle"
                /\ conn_in'[serving[t]] = conn_in[serving[t]]]_vars
    /\ \A c \in Conns : \A n \in 1..MaxReqs :
           (/\ Len(conn_out[c]) = n /\ conn_out[c][n].resp = "Err"
            /\ Len(sent[c]) > n /\ sent[c][n + 1] \in Requests)
           ~> (Len(conn_out[c]) > n \/ peer[c] = "reset")

\* a connection got the KeyNotFound response and then the answers of two later
\* requests
C10_Witness ==
    \E c \in Conns :
        /\ Len(conn_out[c]) = 3
        /\ conn_out[c][1] = ResponseErr(KeyNotFound)
        /\ conn_out[c][2] = ResponseOk(None)
        /\ conn_out[c][3] = ResponseOk(Some(Big))
        /\ conn_st[c] = "serving"

\* C11: the step at which a connection's loop ends on a decode error or an I/O
\* error writes no response on any connection, leaves the engine as it was,
\* returns the worker to the channel, and touches neither the other worker nor
\* the other connections, queued or served; an ended connection gets no response;
\* a worker that is back at the channel can take the next queued connection
C11_ErrorEndsOnlyThatConnection ==
    /\ [][/\ \A t \in Threads :
                (/\ serving[t] # NoConn /\ serving'[t] = NoConn
                 /\ \/ pc[t] = "ret"
                    \/ peer[serving[t]] = "reset"
                    \/ (conn_in[serving[t]] # <<>> /\ Head(conn_in[serving[t]]) = Garbage))
                => /\ conn_out' = conn_out
                   /\ UNCHANGED <<disk, linked, index, uncompacted, current_gen, writer_gen,
                                  writer_pos, wreaders, safe_point, wmutex, iwlock, kv>>
                   /\ pc'[t] = "idle"
                   /\ conn_st'[serving[t]] = "ended"
                   /\ queue' = queue
                   /\ \A u \in Threads \ {t} :
                          /\ serving'[u] = serving[u]
                          /\ pc'[u] = pc[u] /\ op'[u] = op[u] /\ ret'[u] = ret[u]
                          /\ readers'[u] = readers[u]
                   /\ \A d \in Conns \ {serving[t]} :
                          /\ conn_st'[d] = conn_st[d] /\ peer'[d] = peer[d]
                          /\ conn_in'[d] = conn_in[d] /\ decoded'[d] = decoded[d]
          /\ \A c \in Conns : conn_st[c] = "ended" => conn_out'[c] = conn_out[c]]_vars
    /\ [](\A t \in Threads :
             (serving[t] = NoConn /\ queue # <<>>) => ENABLED WorkerRecv(t))

\* a connection ended on an undecodable frame without a response for it, while
\* the other connection, being served, got its request answered
C11_Witness ==
    \E c \in Conns : \E d \in Conns \ {c} :
        /\ conn_st[c] = "ended" /\ peer[c] # "reset"
        /\ Len(sent[c]) > Len(decoded[c])
        /\ sent[c][Len(decoded[c]) + 1] = Garbage
        /\ Len(conn_out[c]) = Len(decoded[c])
        /\ conn_st[d] = "serving"
        /\ Len(sent[d]) = 2 /\ Len(conn_out[d]) = 2

\* how often job j is in the channel, and the workers that run it
InChan(j)  == Cardinality({i \in DOMAIN chan : chan[i] = j})
RunBy(j)   == {w \in Workers : worker[w].st = "run" /\ worker[w].job = j}

\* C12: in a pool with at least one worker a job passed to spawn is in the
\* channel once or run by one worker, never both and never twice; it is started
\* at most once, exactly once when it has ended; and a job in the channel is
\* eventually run to its end
C12_EveryJobRunsOnce ==
    /\ [](\A j \in Jobs :
             /\ job_log[j].runs <= 1
             /\ InChan(j) + Cardinality(RunBy(j)) <= 1
             /\ job_log[j].st = "queued" <=> InChan(j) = 1
             /\ job_log[j].st = "running" <=> Cardinality(RunBy(j)) = 1
             /\ job_log[j].st = "queued" => job_log[j].runs = 0
             /\ job_log[j].st \in {"running", "done", "panicked"} => job_log[j].runs = 1
             /\ (pool.threads >= 1 /\ pool.tx # "none") => job_log[j].st # "lost")
    /\ \A j \in Jobs :
           (pool.threads >= 1 /\ job_log[j].st = "queued")
           ~> (job_log[j].st \in {"done", "panicked"})

\* a pool of two workers ran three jobs, each once
C12_Witness ==
    /\ pool.threads = 2
    /\ \A j \in Jobs : job_log[j].st = "done" /\ job_log[j].runs = 1

C14_SentinelNeverChanges ==
    [][starts' # starts =>
          LET engine == starts'[Len(starts')].engine
              result == starts'[Len(starts')].result
          IN  /\ sentinel \in {<<"kvs">>, <<"sled">>} => sentinel' = sentinel
              /\ (/\ sentinel \in {<<"kvs">>, <<"sled">>}
                  /\ engine \in {<<"kvs">>, <<"sled">>}
                  /\ engine # sentinel) => result.tag = "Err"
              /\ engine = <<>> =>
                    result = [tag |-> "Ok",
                              val |-> IF sentinel = <<>> THEN "kvs" ELSE sentinel[1]]
              /\ result.tag = "Ok" => sentinel' = <<result.val>>
              /\ result.tag = "Err" => sentinel' = sentinel]_vars

\* after a start that recorded sled, a start that asked for kvs failed, and a
\* start without a flag resolved to sled
C14_Witness ==
    /\ Len(starts) = 3
    /\ starts[1] = [engine |-> Some("sled"), result |-> Ok("sled")]
    /\ starts[2].engine = Some("kvs") /\ starts[2].result.tag = "Err"
    /\ starts[3] = [engine |-> None, result |-> Ok("sled")]
    /\ sentinel = Some("sled")

\* C15: in every state, compaction running or not, each index entry
\* k -> (gen, pos, len) names a segment file that is in the directory and whose
\* bytes [pos, pos + len) are a Set record with key k
C15_IndexPointsAtSet ==
    \A k \in DOMAIN index :
        /\ index[k].gen \in linked
        /\ At(disk[index[k].gen], index[k].pos, index[k].len) # {}
        /\ ReadAt(disk[index[k].gen], index[k].pos, index[k].len).cmd = "Set"
        /\ ReadAt(disk[index[k].gen], index[k].pos, index[k].len).key = k

\* a get is about to take the index read lock while a compaction has rewritten
\* the index of two keys and unlinked the old segment
C15_Witness ==
    \E t \in Threads :
        /\ pc[t] = "compact_publish"
        /\ pc[Other(t)] = "get_start"
        /\ Cardinality(DOMAIN index) = 2
        /\ \A k \in DOMAIN index : index[k].gen = compaction_gen
        /\ 1 \notin linked

\* C16: when a compaction aborts with an I/O error, every index entry points
\* at a generation that existed before the compaction started and whose file
\* is still in the directory
C16_AbortLeavesIndexOnOldFiles ==
    [][\A t \in Threads :
          (/\ pc[t] \in {"compact_files", "compact_copy", "compact_unlink"}
           /\ pc'[t] = "ret" /\ ret'[t] = Err(IoFailure))
          => \A k \in DOMAIN index' :
                 /\ index'[k].gen <= (IF pc[t] = "compact_files" THEN current_gen
                                      ELSE compaction_gen - 1)
                 /\ index'[k].gen \in linked']_vars

\* the bytes of the segment files in the directory, and the bytes the index
\* entries cover
RECURSIVE LogBytes(_)
LogBytes(gens) ==
    IF gens = {} THEN 0
    ELSE LET g == CHOOSE x \in gens : TRUE IN FileLen(disk[g]) + LogBytes(gens \ {g})

RECURSIVE LiveBytes(_)
LiveBytes(keys) ==
    IF keys = {} THEN 0
    ELSE LET k == CHOOSE x \in keys : TRUE IN index[k].len + LiveBytes(keys \ {k})

\* C17: whenever no set or remove is in progress, uncompacted is the number of
\* bytes of log records in the directory that no index entry covers
C17_UncompactedIsDeadBytes ==
    (\A t \in Threads : pc[t] \in {"idle", "ret", "get_start", "get_read"})
    => uncompacted = LogBytes(linked) - LiveBytes(DOMAIN index)

\* C18: a set or remove that returns Ok leaves uncompacted at most the threshold
C18_MutationLeavesAtMostThreshold ==
    [][\A t \in Threads :
          (/\ pc[t] \notin {"idle", "ret"} /\ pc'[t] = "ret"
           /\ op[t].kind \in {"set", "rm"}
           /\ ret'[t].tag = "Ok")
          => uncompacted' <= COMPACTION_THRESHOLD]_vars

\* C19: in every state every index entry's generation is at least safe_point,
\* and when compaction publishes a safe_point every index entry is at that
\* generation
C19_IndexAtOrAboveSafePoint ==
    /\ [](\A k \in DOMAIN index : index[k].gen >= safe_point)
    /\ [][(safe_point' # safe_point /\ opens' = opens) =>
             \A k \in DOMAIN index : index[k].gen = safe_point']_vars

\* after a compaction one key is still in the compaction segment and a later
\* set put another one in the active segment
C19_Witness ==
    /\ safe_point > 0
    /\ \E k \in DOMAIN index : index[k].gen = safe_point
    /\ \E k \in DOMAIN index : index[k].gen = current_gen /\ current_gen > safe_point
    /\ \A t \in Threads : pc[t] \in {"idle", "ret"}

\* C20: while the engine is open safe_point never decreases, and each completed
\* compaction stores a greater value; an open starts it at 0; it is always
\* less than the active generation
C20_SafePointMonotonic ==
    /\ [](safe_point < current_gen)
    /\ [][/\ opens' = opens => safe_point' >= safe_point
          /\ opens' # opens => safe_point' = 0
          /\ \A t \in Threads :
                (pc[t] = "compact_publish" /\ pc'[t] = "ret") =>
                    (safe_point' > safe_point /\ safe_point' < current_gen')]_vars

\* the second compaction since the last open has raised a safe_point that was
\* not 0
C20_Witness ==
    /\ safe_point >= 4
    /\ opens = 0
    /\ \E t \in Threads : pc[t] = "ret" /\ op[t].kind = "set"

\* C21: when read_command returns, the handle's reader cache holds no
\* generation below the safe_point it loaded at its start
C21_NoCachedGenBelowSafePoint ==
    [][\A t \in Threads :
          (pc[t] = "get_read" /\ pc'[t] = "ret") =>
              \A g \in readers'[t] : g >= safe_point]_vars

\* C22: the copy step of a compaction leaves the key set unchanged, puts in
\* the compaction segment exactly one record per key, the bytes the key
\* pointed to, contiguous from offset 0, and rewrites every index entry to
\* (compaction_gen, its new offset, the same len); when the compaction ends
\* successfully the segment and the index are still so
C22_CompactionCopiesLiveSet ==
    [][\A t \in Threads :
          /\ (pc[t] = "compact_copy" /\ pc'[t] = "compact_unlink") =>
                LET seg == disk'[compaction_gen]
                IN  /\ DOMAIN index' = DOMAIN index
                    /\ Len(seg) = Cardinality(DOMAIN index)
                    /\ FileLen(seg) = FileLen(disk[compaction_gen]) + LiveBytes(DOMAIN index)
                    /\ FileLen(disk[compaction_gen]) = 0
                    /\ \A k \in DOMAIN index :
                          LET old == ReadAt(disk[index[k].gen], index[k].pos, index[k].len)
                          IN  /\ index'[k].gen = compaction_gen
                              /\ index'[k].len = index[k].len
                              /\ \E i \in 1..Len(seg) :
                                    /\ Offset(seg, i) = index'[k].pos
                                    /\ seg[i] = old
                              /\ old = SetCmd(k, old.value)
                    /\ \A k1, k2 \in DOMAIN index :
                          k1 # k2 => index'[k1].pos # index'[k2].pos
          /\ (pc[t] = "compact_publish" /\ pc'[t] = "ret") =>
                /\ Len(disk'[safe_point']) = Cardinality(DOMAIN index')
                /\ \A k \in DOMAIN index' :
                      /\ index'[k].gen = safe_point'
                      /\ ReadAt(disk'[safe_point'], index'[k].pos, index'[k].len)
                            = SetCmd(k, kv'[k][1])]_vars

\* a compaction has just ended successfully with two keys in the index
C22_Witness ==
    /\ safe_point > 0
    /\ Cardinality(DOMAIN index) = 2
    /\ \A k \in DOMAIN index : index[k].gen = safe_point
    /\ Len(disk[safe_point]) = 2
    /\ pc["t1"] = "ret"

\* C23: a segment file is only ever created at a generation above every
\* generation created before; open creates (largest existing + 1), which is 1
\* in an empty directory; compaction creates current+1 and current+2 and moves
\* the writer to current+2; set and remove append to one segment only, the one
\* with the largest generation on disk
C23_GenerationsIncrease ==
    /\ []((opens = 0 /\ nops = 0) => (current_gen = 1 /\ linked = {1}))
    /\ [](writer_gen = Max(linked))
    /\ [][/\ \A g \in linked' \ linked :
                g \notin DOMAIN disk /\ g > Max(DOMAIN disk)
          /\ opens' # opens =>
                /\ current_gen' = Max(linked) + 1
                /\ writer_gen' = current_gen'
                /\ linked' = linked \cup {current_gen'}
          /\ \A t \in Threads :
                (pc[t] = "compact_files" /\ pc'[t] = "compact_lock") =>
                    /\ compaction_gen' = current_gen + 1
                    /\ writer_gen' = current_gen + 2
                    /\ linked' = linked \cup {current_gen + 1, current_gen + 2}
          /\ \A t \in Threads :
                (pc[t] \in {"set_write", "rm_write"} /\ pc'[t] # pc[t]) =>
                    /\ \A g \in DOMAIN disk : g # Max(linked) => disk'[g] = disk[g]
                    /\ Len(disk'[Max(linked)]) = Len(disk[Max(linked)]) + 1]_vars

\* C24: a get in progress can take its next step whenever the index write
\* lock is free, whoever holds the writer mutex, and cannot read the index
\* while the index write lock is held; no step of a get changes the holder of
\* the writer mutex
C24_GetIgnoresWriterMutex ==
    /\ [](\A t \in Threads :
            /\ pc[t] = "get_start" => (ENABLED EngineStep(t) <=> iwlock = NoThread)
            /\ pc[t] = "get_read" => ENABLED EngineStep(t))
    /\ [][\A t \in Threads :
            (pc[t] \in {"get_start", "get_read"} /\ pc'[t] # pc[t]) =>
                wmutex' = wmutex]_vars

\* a get has returned a value while the other thread holds the writer mutex,
\* its record appended and the index write lock not yet taken
C24_Witness ==
    \E t \in Threads :
        /\ pc[t] = "ret" /\ op[t].kind = "get" /\ ret[t].tag = "Ok" /\ ret[t].val # None
        /\ wmutex = Other(t)
        /\ pc[Other(t)] = "set_index"
        /\ last_lock = Other(t)

\* C25: right after open, uncompacted is the number of bytes of the replayed
\* records that the rebuilt index does not reference
C25_OpenCountsDeadBytes ==
    [][opens' # opens =>
          (uncompacted = LogBytes(linked) - LiveBytes(DOMAIN index))']_vars

\* an engine reopened on a log that holds a displaced Set and a Remove record
C25_Witness ==
    /\ opens > 0
    /\ \A t \in Threads : pc[t] = "idle"
    /\ \E g \in linked : \E i \in 1..Len(disk[g]) : disk[g][i].cmd = "Remove"
    /\ uncompacted > 2 * SetOverhead
    /\ uncompacted = LogBytes(linked) - LiveBytes(DOMAIN index)

\* C26: a worker exits only when the pool has been dropped and the channel
\* is empty; after the drop every job that was enqueued is run to its end and
\* then every worker of the pool has exited
C26_DropDrainsQueue ==
    /\ [][\A w \in Workers :
            (worker[w].st # "exited" /\ worker'[w].st = "exited") =>
                (pool.tx = "closed" /\ chan = <<>>)]_vars
    /\ [](chan # <<>> => Receivers # {})
    /\ \A j \in Jobs :
          (pool.tx = "closed" /\ job_log[j].st \in {"queued", "running"})
             ~> (job_log[j].st \in {"done", "panicked"} /\ job_log[j].runs = 1)
    /\ (pool.tx = "closed")
          ~> (/\ \A w \in Workers : w <= pool.threads => worker[w].st = "exited"
              /\ \A j \in Jobs : job_log[j].st \notin {"queued", "running"})

\* the pool was dropped while one job is running and another is still queued
C26_Witness ==
    /\ pool.tx = "closed"
    /\ chan # <<>>
    /\ \E w \in Workers : worker[w].st = "run"

\* C27: a pool that new returned has at least one live receiving worker as
\* long as it is not dropped, and spawn on it never fails to send
C27_SpawnNeverFails ==
    /\ [](pool.tx = "open" => (pool.threads >= 1 /\ Receivers # {}))
    /\ [](~pool.send_failed)
    /\ [](\A j \in Jobs : job_log[j].st # "lost")

\* C28: with one worker, the worker leaves a connection only when the
\* connection has ended; while it runs a connection that is open and has sent
\* nothing it takes no step; a connection waiting in the queue has had no
\* request decoded or answered; once the worker is free the connection at the
\* head of the queue is taken, and a request it has sent is then answered
C28_ConnectionHoldsWorker ==
    /\ [][(serving["t1"] # NoConn /\ serving'["t1"] # serving["t1"]) =>
             /\ serving'["t1"] = NoConn
             /\ conn_st'[serving["t1"]] = "ended"
             /\ \/ peer[serving["t1"]] \in {"eof", "reset"}
                \/ /\ conn_in[serving["t1"]] # <<>>
                   /\ Head(conn_in[serving["t1"]]) = Garbage]_vars
    /\ [](\A c \in Conns :
            conn_st[c] = "queued" => (decoded[c] = <<>> /\ conn_out[c] = <<>>))
    /\ []((/\ serving["t1"] # NoConn
           /\ pc["t1"] = "idle"
           /\ peer[serving["t1"]] = "open"
           /\ conn_in[serving["t1"]] = <<>>) => ~ENABLED WorkerStep("t1"))
    /\ \A c \in Conns :
          (queue # <<>> /\ Head(queue) = c /\ serving["t1"] = NoConn)
             ~> (conn_st[c] # "queued")
    /\ \A c \in Conns :
          (/\ queue # <<>> /\ Head(queue) = c /\ serving["t1"] = NoConn
           /\ peer[c] = "open" /\ conn_in[c] # <<>> /\ Head(conn_in[c]) \in Requests)
             ~> (conn_out[c] # <<>> \/ peer[c] = "reset")

\* the worker runs a connection that is open and silent while the other
\* connection waits in the queue with a request already sent
C28_Witness ==
    /\ serving["t1"] = "c1"
    /\ peer["c1"] = "open"
    /\ sent["c1"] = <<>>
    /\ conn_st["c2"] = "queued"
    /\ conn_in["c2"] # <<>>
    /\ Head(conn_in["c2"]) \in Requests

\* C29: the index write lock is held only by the holder of the writer mutex;
\* a thread waiting for the writer mutex holds no index lock; the steps that
\* read the index under the read guard release it within the step and take no
\* other lock; whenever an operation is in progress some thread can step; and
\* no operation stays in progress for ever
C29_NoDeadlock ==
    /\ [](\A t \in Threads : iwlock = t => wmutex = t)
    /\ [](\A t \in Threads : pc[t] \in {"set_start", "rm_start"} => iwlock # t)
    /\ [][\A t \in Threads :
            (pc[t] \in {"get_start", "rm_check"} /\ pc'[t] # pc[t]) =>
                (iwlock = NoThread /\ iwlock' = NoThread)]_vars
    /\ []((\E t \in Threads : pc[t] \notin {"idle", "ret"})
             => \E t \in Threads : ENABLED EngineStep(t))
    /\ \A t \in Threads : []<>(pc[t] \in {"idle", "ret"})

\* one thread is inside compaction holding both locks while the other waits
\* for the writer mutex
C29_Witness ==
    \E t \in Threads :
        /\ pc[t] = "compact_copy" /\ wmutex = t /\ iwlock = t
        /\ pc[Other(t)] \in {"set_start", "rm_start"}

\* C30: when a set has returned an error, get of its key returns what the
\* operations that returned Ok before it left (kv), which is what get returned
\* before the call
C30_FailedSetIsInvisible ==
    \A t \in Threads :
        (pc[t] = "ret" /\ op[t].kind = "set" /\ ret[t].tag = "Err")
            => HandleGet(t, op[t].key) = Ok(kv[op[t].key])

\* C31: whatever compaction has failed before, a set that updates the index
\* records the generation of the file its bytes were appended to, so that a
\* get of the key then returns the value set; and between operations the
\* active writer's file is the segment numbered current_gen
C31_WriterFileIsCurrentGen ==
    /\ [][\A t \in Threads :
            (pc[t] = "set_index" /\ pc'[t] # pc[t]) =>
                /\ index'[op[t].key].gen = writer_gen
                /\ HandleGet(t, op[t].key)' = Ok(Some(op[t].value))]_vars
    /\ []((\A t \in Threads : pc[t] \in {"idle", "ret"}) => writer_gen = current_gen)

\* C32: whatever compactions have failed before, a close and reopen leaves
\* absent every key that get reported absent, and leaves every key that get
\* returned a value for with that value
C32_ReopenAfterFailedCompaction ==
    [][opens' # opens =>
          \A k \in Keys :
              HandleGet("t1", k).tag = "Ok" =>
                  HandleGet("t1", k)' = HandleGet("t1", k)]_vars

=============================================================================
